---- MODULE Spec2Model ----
(***************************************************************************)
(* Movie recommender (src/app.py): fetch_poster and recommend over the     *)
(* loaded artifacts (movies, embeddings, nearest-neighbour index).         *)
(* Rows are numbered from 0 as in the source; TLA+ sequences are 1-based,  *)
(* so row r of the catalog is movies[r + 1].                               *)
(***************************************************************************)
EXTENDS Integers, Sequences, FiniteSets

\* ------------------------------------------------------------------ bounds
MaxMovies == 3
MaxCount == 2

TitleOrder == <<"A", "B", "C">>
Titles == {TitleOrder[k] : k \in 1 .. Len(TitleOrder)}
UnknownTitle == "Z"
AllTitles == Titles \cup {UnknownTitle}
EmbValues == {0, 1}
TieRules == {"low", "high"}

\* ------------------------------------------------------- poster API answers
Missing == "<missing>"
ErrorURL == "https://via.placeholder.com/500x750?text=Error"
NoPosterURL == "https://via.placeholder.com/500x750?text=No+Poster"
PosterA == "http://img.omdbapi.com/a.jpg"
\* JSON values of the Poster field that are not strings: the numbers 123, 0
PosterInt == "<int 123>"
PosterZero == "<int 0>"
NonStrings == {Missing, PosterInt, PosterZero}

NoJson == [kind |-> "none", Response |-> Missing, Poster |-> Missing]

Thrown(e) == [exc |-> e, status |-> 0, json |-> NoJson]
Http(s, j) == [exc |-> "none", status |-> s, json |-> j]
Dict(r, p) == [kind |-> "dict", Response |-> r, Poster |-> p]
Body(k) == [kind |-> k, Response |-> Missing, Poster |-> Missing]

\* every answer requests.get can give to one call
\* (302 and 600 stand for the statuses outside 2xx that raise_for_status
\* lets through; OtherError for an exception that is no RequestException,
\* KeyboardInterrupt for one that is no Exception either)
Responses ==
    {Thrown("Timeout"), Thrown("ConnectionError"), Thrown("OtherError"),
     Thrown("KeyboardInterrupt")}
        \cup {Http(s, NoJson) : s \in {404, 500}}
        \cup {Http(200, Body(k)) :
                  k \in {"JSONDecodeError", "ValueError", "list", "null", "str"}}
        \cup {Http(s, Body("JSONDecodeError")) : s \in {302, 600}}
        \cup {Http(s, Dict(r, p)) : s \in {200, 302},
                                    r \in {"True", "False", Missing},
                                    p \in {Missing, "", "N/A", PosterA,
                                           PosterInt, PosterZero}}

\* the answers drawn inside a recommend invocation
LoopResponses ==
    {Thrown("Timeout"), Http(200, Body("list")),
     Http(200, Dict("True", "N/A")), Http(200, Dict("True", PosterA)),
     Http(200, Dict("True", PosterInt)), Thrown("KeyboardInterrupt")}

NoResponse == Thrown("none")

\* -------------------------------------------------------------- fetch_poster
Returned(u) == [raised |-> "none", url |-> u]
Raised(e) == [raised |-> e, url |-> ""]

\* response.raise_for_status() raises HTTPError for 400 <= status < 600 only
HTTPError(resp) == resp.exc = "none" /\ resp.status >= 400 /\ resp.status < 600

\* requests.get raised, raise_for_status raised, or response.json() raised the
\* requests JSONDecodeError: all are RequestException
RequestException(resp) ==
    \/ resp.exc \in {"Timeout", "ConnectionError"}
    \/ HTTPError(resp)
    \/ resp.exc = "none" /\ ~HTTPError(resp) /\ resp.json.kind = "JSONDecodeError"

\* requests.get raised something that is no RequestException
OtherException(resp) ==
    resp.exc \notin {"none", "Timeout", "ConnectionError"}

\* if poster_path: None, "" and 0 are false
Truthy(s) == s # Missing /\ s # "" /\ s # PosterZero

\* except Exception catches every exception but the BaseException-only ones
IsException(e) == e \notin {"none", "KeyboardInterrupt"}

fetch_posterNoExcept(title, resp) ==
    IF RequestException(resp) THEN Raised("RequestException")
    ELSE IF OtherException(resp) THEN Raised(resp.exc)
    ELSE IF resp.json.kind = "ValueError" THEN Raised("ValueError")
    ELSE IF resp.json.kind # "dict" THEN Raised("AttributeError")
    ELSE IF /\ resp.json.Response = "True"
            /\ Truthy(resp.json.Poster)
            /\ resp.json.Poster # "N/A"
         THEN Returned(resp.json.Poster)
    ELSE Returned(NoPosterURL)

fetch_posterOnePlaceholder(title, resp) ==
    IF RequestException(resp) THEN Returned(NoPosterURL)
    ELSE IF OtherException(resp) THEN Raised(resp.exc)
    ELSE IF resp.json.kind = "ValueError" THEN Raised("ValueError")
    ELSE IF resp.json.kind # "dict" THEN Raised("AttributeError")
    ELSE IF /\ resp.json.Response = "True"
            /\ Truthy(resp.json.Poster)
            /\ resp.json.Poster # "N/A"
         THEN Returned(resp.json.Poster)
    ELSE Returned(NoPosterURL)

fetch_posterNoNA(title, resp) ==
    IF RequestException(resp) THEN Returned(ErrorURL)
    ELSE IF OtherException(resp) THEN Raised(resp.exc)
    ELSE IF resp.json.kind = "ValueError" THEN Raised("ValueError")
    ELSE IF resp.json.kind # "dict" THEN Raised("AttributeError")
    ELSE IF /\ resp.json.Response = "True"
            /\ Truthy(resp.json.Poster)
         THEN Returned(resp.json.Poster)
    ELSE Returned(NoPosterURL)

fetch_poster(title, resp) ==
    IF RequestException(resp) THEN Returned(ErrorURL)
    ELSE IF OtherException(resp) THEN Raised(resp.exc)
    ELSE IF resp.json.kind = "ValueError" THEN Raised("ValueError")
    ELSE IF resp.json.kind # "dict" THEN Raised("AttributeError")
    ELSE IF /\ resp.json.Response = "True"
            /\ Truthy(resp.json.Poster)
            /\ resp.json.Poster # "N/A"
         THEN Returned(resp.json.Poster)
    ELSE Returned(NoPosterURL)

\* ------------------------------------------------------------------- state
\* movies, embeddings, index: the artifacts load_artifacts() returns.
\* op, movie_name, top_n, api: the call in progress in this script run and
\* the answers the poster API gave to it.  rec: what recommend computed.
\* title, response, poster: the argument, answer and outcome of a direct
\* fetch_poster call.
VARIABLES movies, embeddings, index,
          op, movie_name, top_n, api, rec,
          title, response, poster

vars == <<movies, embeddings, index, op, movie_name, top_n, api, rec,
          title, response, poster>>

artifacts == <<movies, embeddings, index>>

\* ------------------------------------------------------------ index.search
Dist(a, b) == IF a > b THEN a - b ELSE b - a

Closer(ix, q, r1, r2) ==
    LET d1 == Dist(ix.xb[r1 + 1], q)
        d2 == Dist(ix.xb[r2 + 1], q)
    IN  \/ d1 < d2
        \/ d1 = d2 /\ r1 # r2 /\ (IF ix.ties = "low" THEN r1 < r2 ELSE r1 > r2)

Rank(ix, q, r) ==
    Cardinality({s \in 0 .. (Len(ix.xb) - 1) : Closer(ix, q, s, r)})

RowAt(ix, q, p) ==
    CHOOSE r \in 0 .. (Len(ix.xb) - 1) : Rank(ix, q, r) = p

\* the k nearest rows, closest first; -1 in the slots past the last row
Search(ix, q, k) ==
    [j \in 1 .. k |-> IF j <= Len(ix.xb) THEN RowAt(ix, q, j - 1) ELSE -1]

\* ---------------------------------------------------------------- recommend
TitleKnown(mv, t) == \E i \in 1 .. Len(mv) : mv[i] = t

\* list(movies['title']).index(movie_name)
ListIndex(mv, t) ==
    (CHOOSE i \in 1 .. Len(mv) :
        mv[i] = t /\ \A j \in 1 .. (i - 1) : mv[j] # t) - 1

IlocOk(mv, i) == i >= -Len(mv) /\ i < Len(mv)

\* movies.iloc[i].title: a negative position counts from the end
Iloc(mv, i) == IF i < 0 THEN mv[Len(mv) + i + 1] ELSE mv[i + 1]

\* raised: the exception recommend ends with ("none" when it returns)
EmptyResult ==
    [names |-> <<>>, posters |-> <<>>, calls |-> <<>>, searches |-> 0,
     indices |-> <<>>, raised |-> "none"]

EarlySearchResult ==
    [names |-> <<>>, posters |-> <<>>, calls |-> <<>>, searches |-> 1,
     indices |-> <<>>, raised |-> "none"]

UnknownResult == EmptyResult

LoopBodyPrepend(mv, acc, i, resp) ==
    IF ~IlocOk(mv, i) THEN acc
    ELSE LET movie_title == Iloc(mv, i)
             poster_url == fetch_poster(movie_title, resp)
             called == [acc EXCEPT !.calls = Append(@, movie_title)]
         IN  IF IsException(poster_url.raised) THEN called
             ELSE IF poster_url.raised # "none"
             THEN [called EXCEPT !.raised = poster_url.raised]
             ELSE [called EXCEPT !.names = <<movie_title>> \o @,
                                 !.posters = <<poster_url.url>> \o @]

LoopBodyRetry(mv, acc, i, resp) ==
    IF ~IlocOk(mv, i) THEN acc
    ELSE LET movie_title == Iloc(mv, i)
             poster_url == fetch_poster(movie_title, resp)
             called == [acc EXCEPT !.calls = Append(@, movie_title)]
         IN  IF IsException(poster_url.raised) THEN called
             ELSE IF poster_url.raised # "none"
             THEN [called EXCEPT !.raised = poster_url.raised]
             ELSE IF poster_url.url = ErrorURL
             THEN [called EXCEPT !.calls = Append(@, movie_title),
                                 !.names = Append(@, movie_title),
                                 !.posters = Append(@, poster_url.url)]
             ELSE [called EXCEPT !.names = Append(@, movie_title),
                                 !.posters = Append(@, poster_url.url)]

LoopBodyNameFirst(mv, acc, i, resp) ==
    IF ~IlocOk(mv, i) THEN acc
    ELSE LET movie_title == Iloc(mv, i)
             poster_url == fetch_poster(movie_title, resp)
             called == [acc EXCEPT !.calls = Append(@, movie_title),
                                   !.names = Append(@, movie_title)]
         IN  IF IsException(poster_url.raised) THEN called
             ELSE IF poster_url.raised # "none"
             THEN [called EXCEPT !.raised = poster_url.raised]
             ELSE [called EXCEPT !.posters = Append(@, poster_url.url)]

\* one pass of the for loop: the row's title, one poster call, then both
\* appends; an Exception anywhere in the pass skips the appends, any other
\* exception leaves the loop and recommend
LoopBody(mv, acc, i, resp) ==
    IF ~IlocOk(mv, i) THEN acc
    ELSE LET movie_title == Iloc(mv, i)
             poster_url == fetch_poster(movie_title, resp)
             called == [acc EXCEPT !.calls = Append(@, movie_title)]
         IN  IF IsException(poster_url.raised) THEN called
             ELSE IF poster_url.raised # "none"
             THEN [called EXCEPT !.raised = poster_url.raised]
             ELSE [called EXCEPT !.names = Append(@, movie_title),
                                 !.posters = Append(@, poster_url.url)]

\* for i in indices[0][1:]: the j-th pass gets the j-th answer of the API
RECURSIVE Loop(_, _, _, _, _)
Loop(mv, acc, ind, answers, j) ==
    IF j > Len(ind) - 1 \/ acc.raised # "none" THEN acc
    ELSE Loop(mv, LoopBody(mv, acc, ind[j + 1], answers[j]), ind, answers, j + 1)

recommend(mv, emb, ix, name, n, answers) ==
    IF ~TitleKnown(mv, name) THEN UnknownResult
    ELSE LET movie_idx == ListIndex(mv, name)
             query_vector == emb[movie_idx + 1]
             ind == Search(ix, query_vector, n + 1)
             start == [EmptyResult EXCEPT !.searches = 1, !.indices = ind]
         IN  Loop(mv, start, ind, answers, 1)

\* ------------------------------------------------------------------ actions
\* catalogs up to a renaming of the titles: a title appears for the first
\* time only after the titles before it in TitleOrder (duplicates allowed)
Canonical(mv) ==
    \A i \in 1 .. Len(mv), k \in 1 .. Len(TitleOrder) :
        (mv[i] = TitleOrder[k] /\ k > 1)
            => \E j \in 1 .. (i - 1) : mv[j] = TitleOrder[k - 1]

Init ==
    /\ \E n \in 1 .. MaxMovies :
          /\ movies \in {mv \in [1 .. n -> Titles] : Canonical(mv)}
          /\ embeddings \in [1 .. n -> EmbValues]
    /\ \E t \in TieRules : index = [xb |-> embeddings, ties |-> t]
    /\ op = "none"
    /\ movie_name = ""
    /\ top_n = 0
    /\ api = <<>>
    /\ rec = EmptyResult
    /\ title = ""
    /\ response = NoResponse
    /\ poster = Returned("")

\* names, posters = recommend(selected_movie, num_recs)
Recommend(name, n, answers) ==
    /\ op = "none"
    /\ op' = "recommend"
    /\ movie_name' = name
    /\ top_n' = n
    /\ api' = answers
    /\ rec' = recommend(movies, embeddings, index, name, n, answers)
    /\ UNCHANGED <<artifacts, title, response, poster>>

FetchPoster(t, resp) ==
    /\ op = "none"
    /\ op' = "fetch_poster"
    /\ title' = t
    /\ response' = resp
    /\ poster' = fetch_poster(t, resp)
    /\ UNCHANGED <<artifacts, movie_name, top_n, api, rec>>

\* the script runs again from the top: the cached artifacts are reused and
\* nothing of the previous call is kept
Rerun ==
    /\ op # "none"
    /\ op' = "none"
    /\ movie_name' = ""
    /\ top_n' = 0
    /\ api' = <<>>
    /\ rec' = EmptyResult
    /\ title' = ""
    /\ response' = NoResponse
    /\ poster' = Returned("")
    /\ UNCHANGED artifacts

\* a lookup that ends recommend is the last one made
Interrupts(resp) ==
    resp.exc # "none" /\ ~RequestException(resp) /\ ~IsException(resp.exc)

\* the answers the API gives to the n lookups of one invocation, up to the
\* one that ends it
ApiAnswers(n) ==
    UNION {{a \in [1 .. k -> LoopResponses] :
               /\ \A i \in 1 .. (k - 1) : ~Interrupts(a[i])
               /\ k < n => (k >= 1 /\ Interrupts(a[k]))} : k \in 0 .. n}

Next ==
    \/ /\ op = "none"
       /\ \E name \in AllTitles, n \in 1 .. MaxCount :
             \E answers \in ApiAnswers(IF TitleKnown(movies, name) THEN n ELSE 0) :
                Recommend(name, n, answers)
    \/ /\ op = "none"
       /\ \E t \in {TitleOrder[1], UnknownTitle}, resp \in Responses :
             FetchPoster(t, resp)
    \/ Rerun

Spec == Init /\ [][Next]_vars

\* ------------------------------------------------------------- properties
Recommended == op = "recommend"
Fetched == op = "fetch_poster"
\* recommend was called and returned its two lists
Completed == Recommended /\ rec.raised = "none"
Known == TitleKnown(movies, movie_name)

IsPrefix(s, t) ==
    /\ Len(s) <= Len(t)
    /\ \A i \in 1 .. Len(s) : s[i] = t[i]

MinOf(a, b) == IF a < b THEN a ELSE b

\* timeout, connection error, or an HTTP error status (4xx, 5xx)
TransportFailure(resp) ==
    \/ resp.exc \in {"Timeout", "ConnectionError"}
    \/ resp.exc = "none" /\ resp.status >= 400 /\ resp.status <= 599

\* timeout, connection error, or any HTTP status outside 2xx
NonSuccessStatus(resp) ==
    \/ resp.exc \in {"Timeout", "ConnectionError"}
    \/ resp.exc = "none" /\ (resp.status < 200 \/ resp.status > 299)

\* the call went through with a 2xx status and the body is a JSON object
Answered(resp) ==
    resp.exc = "none" /\ resp.status >= 200 /\ resp.status <= 299
        /\ resp.json.kind = "dict"

\* no exception and no HTTP error status, and the body is a JSON object
Accepted(resp) ==
    resp.exc = "none" /\ (resp.status < 400 \/ resp.status > 599)
        /\ resp.json.kind = "dict"

FlagNotSuccess(resp) == Accepted(resp) /\ resp.json.Response # "True"

LookupReturned(t, resp) == fetch_poster(t, resp).raised = "none"

\* the titles (posters) of the calls whose lookup returned, in call order
RECURSIVE KeptTitles(_, _, _)
KeptTitles(cs, answers, i) ==
    IF i > Len(cs) \/ i > Len(answers) THEN <<>>
    ELSE (IF LookupReturned(cs[i], answers[i]) THEN <<cs[i]>> ELSE <<>>)
             \o KeptTitles(cs, answers, i + 1)

RECURSIVE KeptPosters(_, _, _)
KeptPosters(cs, answers, i) ==
    IF i > Len(cs) \/ i > Len(answers) THEN <<>>
    ELSE (IF LookupReturned(cs[i], answers[i])
          THEN <<fetch_poster(cs[i], answers[i]).url>> ELSE <<>>)
             \o KeptPosters(cs, answers, i + 1)

\* C1: for a known title T, the titles recommend(T, n) returns contain no
\* entry equal to T, whatever the index answered (query row not first, or
\* padded answer).
C1_SelfExclusion ==
    (Completed /\ Known)
        => \A j \in 1 .. Len(rec.names) : rec.names[j] # movie_name

\* C2: for an unknown title recommend raises nothing, returns two empty
\* lists and has issued no nearest-neighbour query and no poster lookup.
C2_UnknownTitle ==
    (Recommended /\ ~Known)
        => /\ rec.raised = "none"
           /\ rec.names = <<>>
           /\ rec.posters = <<>>
           /\ rec.searches = 0
           /\ rec.calls = <<>>

C2_Witness == Recommended /\ ~Known /\ top_n = MaxCount

\* C3: for a known title recommend returns at most min(n, catalog size - 1)
\* titles.
C3_SizeBound ==
    (Completed /\ Known)
        => Len(rec.names) <= MinOf(top_n, Len(movies) - 1)

\* C4: a poster lookup that ends in a transport failure leaves its title in
\* the result, paired with the error placeholder; the later lookups are
\* made and the invocation ends exactly as it would had that lookup
\* succeeded (it returns after all top_n lookups, unless a lookup is
\* interrupted by an exception that is no Exception); and every other entry
\* is what it would be had that lookup succeeded.
C4_FailureIsolation ==
    (Recommended /\ Known)
        => \A i \in 1 .. Len(api) :
              TransportFailure(api[i])
                  => LET alt == recommend(movies, embeddings, index, movie_name,
                                          top_n,
                                          [api EXCEPT ![i] =
                                              Http(200, Dict("True", PosterA))])
                     IN  /\ Len(rec.calls) = Len(api)
                         /\ (\A k \in 1 .. Len(api) :
                                 api[k].exc # "KeyboardInterrupt")
                               => (rec.raised = "none" /\ Len(rec.calls) = top_n)
                         /\ alt.calls = rec.calls
                         /\ alt.raised = rec.raised
                         /\ alt.names = rec.names
                         /\ Len(alt.posters) = Len(rec.posters)
                         /\ \E j \in 1 .. MinOf(i, Len(rec.names)) :
                               /\ rec.names[j] = Iloc(movies, rec.indices[i + 1])
                               /\ rec.posters[j] = ErrorURL
                               /\ alt.posters[j] = PosterA
                               /\ \A k \in 1 .. Len(rec.posters) :
                                     k # j => alt.posters[k] = rec.posters[k]

C4_Witness ==
    /\ Recommended /\ Known /\ top_n = 2
    /\ api[1] = Thrown("Timeout")
    /\ api[2] = Http(200, Dict("True", PosterA))
    /\ rec.raised = "none"
    /\ Len(rec.names) = 2
    /\ rec.posters = <<ErrorURL, PosterA>>

\* C5 as stated: on a transport failure or on a non-success status flag
\* fetch_poster returns the transport-error placeholder.
C5_ErrorPlaceholderOnFlag ==
    (Fetched /\ (NonSuccessStatus(response) \/ FlagNotSuccess(response)))
        => poster = Returned(ErrorURL)

\* C5 amended: on a timeout, a connection error or an HTTP error status
\* (4xx, 5xx) fetch_poster returns the transport-error placeholder (never
\* the absence placeholder, never a real poster); on an answer without
\* error whose status flag is not success it returns the absence
\* placeholder.
C5_ErrorPlaceholder ==
    Fetched
        => /\ TransportFailure(response)
                => /\ poster = Returned(ErrorURL)
                   /\ poster.url # NoPosterURL
                   /\ poster.url # PosterA
           /\ FlagNotSuccess(response) => poster = Returned(NoPosterURL)

C5_Witness ==
    /\ Fetched
    /\ response = Http(200, Dict("False", PosterA))
    /\ poster = Returned(NoPosterURL)

\* C6: a successful answer with the success flag and a poster field that is
\* missing, empty (the empty string, or the number 0) or "N/A" gives the
\* absence placeholder, which differs from the URL returned on a transport
\* error; any other poster value, string or not, is returned unchanged.
C6_AbsencePlaceholder ==
    (Fetched /\ Answered(response) /\ response.json.Response = "True")
        => IF response.json.Poster \in {Missing, "", PosterZero, "N/A"}
           THEN /\ poster = Returned(NoPosterURL)
                /\ poster.url # fetch_poster(title, Thrown("Timeout")).url
           ELSE poster = Returned(response.json.Poster)

C6_Witness ==
    /\ Fetched
    /\ response = Http(200, Dict("True", "N/A"))
    /\ poster = Returned(NoPosterURL)

\* C7: for a known title and n1 < n2, the titles recommend(T, n1) returns
\* are a prefix of the titles recommend(T, n2) returns, for every catalog
\* size and whatever the poster API answers to either invocation (the index
\* is deterministic: its k-nearest answer is a prefix of its (k+1)-nearest).
C7_PrefixMonotone ==
    (Completed /\ Known)
        => \A n1 \in 1 .. (top_n - 1) :
              \A answers \in ApiAnswers(n1) :
                 LET first == recommend(movies, embeddings, index, movie_name,
                                        n1, answers)
                 IN  first.raised = "none" => IsPrefix(first.names, rec.names)

\* C8: when the index returns the query row first and n is at most the
\* number of other movies, the titles are exactly those of the n nearest
\* other rows, closest first, the query row being the first row titled T.
C8_OrderPreserving ==
    (/\ Completed /\ Known
     /\ rec.indices[1] = ListIndex(movies, movie_name)
     /\ top_n <= Len(movies) - 1)
        => /\ Len(rec.names) = top_n
           /\ \A j \in 1 .. MinOf(top_n, Len(rec.names)) :
                 rec.names[j] =
                     movies[RowAt(index,
                                  embeddings[ListIndex(movies, movie_name) + 1],
                                  j) + 1]

\* C9: one poster call per pass of the loop, in result order, never
\* repeated: at most top_n calls, the i-th for the title of the i-th row
\* after the first, all of them made when recommend returns, and the
\* returned titles are exactly the titles of the calls that returned, in
\* call order.
C9_OneCallPerTitle ==
    Recommended
        => /\ Len(rec.calls) <= top_n
           /\ (Completed /\ Known) => Len(rec.calls) = Len(rec.indices) - 1
           /\ \A i \in 1 .. MinOf(Len(rec.calls), Len(rec.indices) - 1) :
                 rec.calls[i] = Iloc(movies, rec.indices[i + 1])
           /\ rec.names = KeptTitles(rec.calls, api, 1)

C9_Witness ==
    /\ Completed /\ Known /\ top_n = 2
    /\ TransportFailure(api[1])
    /\ Len(rec.calls) = 2
    /\ Len(rec.names) = 2

\* C10 as stated: titles and posters have the same length, the poster at
\* position i is what fetch_poster returned for the title at position i,
\* every poster is a non-empty string (a real poster URL or one of the two
\* placeholders), and an entry whose pass raised is in neither list.
C10_PairingStrings ==
    Completed
        => /\ Len(rec.names) = Len(rec.posters)
           /\ rec.names = KeptTitles(rec.calls, api, 1)
           /\ rec.posters = KeptPosters(rec.calls, api, 1)
           /\ \A j \in 1 .. Len(rec.posters) :
                 /\ rec.posters[j] # ""
                 /\ rec.posters[j] \notin NonStrings

\* C10 amended: when recommend returns, titles and posters have the same
\* length, the poster at position i is what fetch_poster returned for the
\* title at position i, every poster is a non-empty value (one of the two
\* placeholders, or the Poster field of the API's answer unchanged, string
\* or not), and an entry whose pass raised an Exception is in neither list.
C10_Pairing ==
    Completed
        => /\ Len(rec.names) = Len(rec.posters)
           /\ rec.names = KeptTitles(rec.calls, api, 1)
           /\ rec.posters = KeptPosters(rec.calls, api, 1)
           /\ \A j \in 1 .. Len(rec.posters) :
                 /\ rec.posters[j] \notin {"", Missing, PosterZero}
                 /\ \/ rec.posters[j] \in {ErrorURL, NoPosterURL}
                    \/ \E i \in 1 .. Len(api) :
                          /\ Accepted(api[i])
                          /\ rec.posters[j] = api[i].json.Poster

C10_Witness ==
    /\ Completed /\ Known /\ top_n = 2
    /\ api[1] = Http(200, Body("list"))
    /\ api[2] = Http(200, Dict("True", PosterInt))
    /\ Len(rec.calls) = 2
    /\ rec.posters = <<PosterInt>>

====
